---------------------------- MODULE Spec2Model ----------------------------
(***************************************************************************)
(* Model of the request dispatch and delivery layer of the BearTech bot    *)
(* (src/start_production.py, run_bot).                                     *)
(*                                                                         *)
(*  - Spec      : the handlers handle_message / analyze_command and the    *)
(*                coroutine analyze_token_address with everything it       *)
(*                awaits, run as interleaved tasks (one step per await).   *)
(*  - SpecSplit : split_message, one step per iteration of its loop.       *)
(*  - SpecAddr  : is_contract_address applied to candidate strings.        *)
(*  - SpecStart : run_bot, from the built application to run_polling and   *)
(*                the handlers it dispatches to.                           *)
(*  - SpecCallback : handle_callback_query / handle_refresh_callback for   *)
(*                the refresh buttons of many addresses.                   *)
(*  - SpecRefresh : the callback task interleaved with analysis tasks.     *)
(*  - SpecDeliver : send_analysis_results with the texts it delivers.      *)
(*                                                                         *)
(* Strings are sequences of one-character strings.                         *)
(***************************************************************************)
EXTENDS Integers, Sequences, FiniteSets, TLC

VARIABLES
    analyzing_users,  \* the set analyzing_users (line 55)
    task,             \* per handler task: where it is suspended, and its locals
    sm_chunks, sm_current, sm_lines, sm_text, sm_max, sm_pc,  \* split_message
    ca_text, ca_result, ca_pc,                                \* is_contract_address
    app,              \* the Application of run_bot: where it is, what it registered
    buttons,          \* the inline buttons that carry callback data (line 360)
    cb,               \* the task of handle_callback_query and its locals
    delivery          \* one call of send_analysis_results and its locals

sessionVars == <<analyzing_users, task>>
splitVars == <<sm_chunks, sm_current, sm_lines, sm_text, sm_max, sm_pc>>
addrVars == <<ca_text, ca_result, ca_pc>>
startVars == <<app>>
refreshVars == <<buttons, cb>>
deliverVars == <<delivery>>
vars == <<sessionVars, splitVars, addrVars, startVars, refreshVars, deliverVars>>

(***************************************************************************)
(* Bounds of the model.                                                    *)
(***************************************************************************)
NumUsers == 2
MaxTasks == 2
MaxChunks == 2
MaxTextLen == 5
MaxMaxLength == 5
MaxTokenLen == 3
\* the model's value of src.config.MAX_MESSAGE_LENGTH (line 47)
MAX_MESSAGE_LENGTH == 104
\* line 322: MAX_MESSAGE_LENGTH - 100
RESERVED_MARGIN == 100

Users == 1..NumUsers
Tasks == 1..MaxTasks

(***************************************************************************)
(* Characters and Python's str helpers.                                    *)
(***************************************************************************)
NL == "\n"
SP == " "
Whitespace == {SP, NL}

RECURSIVE LStrip(_)
\* str.lstrip(): drop leading whitespace
LStrip(s) ==
    IF s = <<>> THEN <<>>
    ELSE IF Head(s) \in Whitespace THEN LStrip(Tail(s)) ELSE s

RECURSIVE RStrip(_)
\* str.rstrip(): drop trailing whitespace
RStrip(s) ==
    IF s = <<>> THEN <<>>
    ELSE IF s[Len(s)] \in Whitespace THEN RStrip(SubSeq(s, 1, Len(s) - 1)) ELSE s

\* str.strip(): both ends
Strip(s) == RStrip(LStrip(s))

\* s.startswith(p)
StartsWith(s, p) == Len(s) >= Len(p) /\ SubSeq(s, 1, Len(p)) = p

\* s[n:]
Drop(s, n) == SubSeq(s, n + 1, Len(s))

\* s[:n]
Take(s, n) == SubSeq(s, 1, IF n < Len(s) THEN n ELSE Len(s))

\* c * n
Rep(c, n) == [i \in 1..n |-> c]


(***************************************************************************)
(* is_contract_address (lines 416-436).                                    *)
(***************************************************************************)
AddrLen == 42
HexDigits == {"0", "1", "2", "3", "4", "5", "6", "7", "8", "9",
              "a", "b", "c", "d", "e", "f", "A", "B", "C", "D", "E", "F"}

\* The digit part of an integer literal as int() reads it: at least one
\* digit, single underscores only between digits.
DigitsOK(d) ==
    /\ d # <<>>
    /\ \A i \in 1..Len(d) : d[i] \in HexDigits \cup {"_"}
    /\ d[1] # "_"
    /\ d[Len(d)] # "_"
    /\ \A i \in 1..(Len(d) - 1) : ~(d[i] = "_" /\ d[i + 1] = "_")

\* int(s, 16) returns (TRUE) or raises ValueError (FALSE): surrounding
\* whitespace, one sign, one 0x/0X prefix and one underscore after the prefix
\* are all accepted by Python's integer parser.
IntBase16Parses(s) ==
    LET t == Strip(s)
        u == IF t # <<>> /\ Head(t) \in {"+", "-"} THEN Tail(t) ELSE t
        p == IF StartsWith(u, <<"0", "x">>) \/ StartsWith(u, <<"0", "X">>)
             THEN LET r == Drop(u, 2)
                  IN IF r # <<>> /\ Head(r) = "_" THEN Tail(r) ELSE r
             ELSE u
    IN DigitsOK(p)

\* is_contract_address(text)
IsContractAddress(text) ==
    IF text = <<>> THEN FALSE
    ELSE LET t == Strip(text)
         IN IF ~StartsWith(t, <<"0", "x">>) THEN FALSE
            ELSE IF Len(t) # AddrLen THEN FALSE
            ELSE IntBase16Parses(Drop(t, 2))

(***************************************************************************)
(* split_message (lines 438-459).                                          *)
(***************************************************************************)
SplitAlphabet == {"a", "b", SP, NL}
Texts == UNION {[1..n -> SplitAlphabet] : n \in 0..MaxTextLen}

RECURSIVE SplitLines(_)
\* message.split('\n')
SplitLines(s) ==
    IF \A i \in 1..Len(s) : s[i] # NL THEN <<s>>
    ELSE LET k == CHOOSE i \in 1..Len(s) :
                      s[i] = NL /\ \A j \in 1..(i - 1) : s[j] # NL
         IN <<SubSeq(s, 1, k - 1)>> \o SplitLines(SubSeq(s, k + 1, Len(s)))

\* line 445: len(current_chunk + line + '\n') > max_length
Overflows(current, line, max) == Len(current \o line \o <<NL>>) > max

\* line 447: the completed chunk, current_chunk.strip()
CompletedChunk(current) == Strip(current)

\* Mutant: the accumulator restarts empty, the current line is dropped.
RestartEmpty(line) == <<>>

\* line 448: the accumulator restarts from the current line
RestartFrom(line) == line \o <<NL>>

\* line 451: line[:max_length]
CutHead(line, max) == Take(line, max)

\* Mutant: what is left of a line after the cut is dropped.
CutRestDropped(line, max) == <<NL>>

\* line 452: line[max_length:] + '\n'
CutRest(line, max) == Drop(line, max) \o <<NL>>

\* Mutant: the last chunk is appended as accumulated, not stripped.
FinalChunksRaw(current) ==
    IF Strip(current) # <<>> THEN <<current>> ELSE <<>>

\* lines 456-457: the last chunk, when current_chunk.strip() is not empty
FinalChunks(current) ==
    IF Strip(current) # <<>> THEN <<Strip(current)>> ELSE <<>>

\* lines 440-443
InitSplit ==
    /\ sm_text \in Texts
    /\ sm_max \in 1..MaxMaxLength
    /\ sm_lines = SplitLines(sm_text)
    /\ sm_chunks = <<>>
    /\ sm_current = <<>>
    /\ sm_pc = "loop"

\* lines 445-448: the accumulator is full, it is emitted
SplitFlush ==
    /\ sm_pc = "loop" /\ sm_lines # <<>>
    /\ Overflows(sm_current, Head(sm_lines), sm_max)
    /\ sm_current # <<>>
    /\ sm_chunks' = Append(sm_chunks, CompletedChunk(sm_current))
    /\ sm_current' = RestartFrom(Head(sm_lines))
    /\ sm_lines' = Tail(sm_lines)
    /\ UNCHANGED <<sm_text, sm_max, sm_pc, sessionVars, addrVars,
                 startVars, refreshVars, deliverVars>>

\* lines 449-452: a single line is too long, it is cut
SplitCut ==
    /\ sm_pc = "loop" /\ sm_lines # <<>>
    /\ Overflows(sm_current, Head(sm_lines), sm_max)
    /\ sm_current = <<>>
    /\ sm_chunks' = Append(sm_chunks, CutHead(Head(sm_lines), sm_max))
    /\ sm_current' = CutRest(Head(sm_lines), sm_max)
    /\ sm_lines' = Tail(sm_lines)
    /\ UNCHANGED <<sm_text, sm_max, sm_pc, sessionVars, addrVars,
                 startVars, refreshVars, deliverVars>>

\* lines 453-454: the line fits
SplitAppend ==
    /\ sm_pc = "loop" /\ sm_lines # <<>>
    /\ ~Overflows(sm_current, Head(sm_lines), sm_max)
    /\ sm_current' = sm_current \o Head(sm_lines) \o <<NL>>
    /\ sm_lines' = Tail(sm_lines)
    /\ UNCHANGED <<sm_chunks, sm_text, sm_max, sm_pc, sessionVars, addrVars,
                 startVars, refreshVars, deliverVars>>

\* lines 456-459: after the loop
SplitFinish ==
    /\ sm_pc = "loop" /\ sm_lines = <<>>
    /\ sm_chunks' = sm_chunks \o FinalChunks(sm_current)
    /\ sm_pc' = "done"
    /\ UNCHANGED <<sm_current, sm_lines, sm_text, sm_max, sessionVars, addrVars,
                 startVars, refreshVars, deliverVars>>

SplitIdle ==
    /\ sm_text = <<>> /\ sm_max = 1 /\ sm_lines = <<>>
    /\ sm_chunks = <<>> /\ sm_current = <<>> /\ sm_pc = "idle"

(***************************************************************************)
(* is_contract_address applied to candidate strings.                       *)
(***************************************************************************)
AddrAlphabet == {"0", "x", "X", "a", "F", "g", "+", "_", SP}
Prefixes == {<<"0", "x">>, <<"0", "X">>, <<"1", "x">>}
Pads == {<<>>, <<SP>>, <<NL>>}

\* A body of n characters "1", except two adjacent characters c1, c2: the
\* first two, or the last two.
Body(n, atEnd, c1, c2) ==
    LET p == IF atEnd THEN n - 1 ELSE 1
    IN [i \in 1..n |-> IF i = p THEN c1 ELSE IF i = p + 1 THEN c2 ELSE "1"]

Candidates ==
    {<<>>, <<"0", "x">>, <<"0", "x", "1", "2", "3">>}
    \cup {lead \o pfx \o Body(n, p, c1, c2) \o trail :
            lead \in Pads, trail \in Pads, pfx \in Prefixes,
            n \in (AddrLen - 3)..(AddrLen - 1),
            p \in BOOLEAN, c1 \in AddrAlphabet, c2 \in AddrAlphabet}

InitAddr ==
    /\ ca_text \in Candidates
    /\ ca_result = FALSE
    /\ ca_pc = "call"

CheckAddress ==
    /\ ca_pc = "call"
    /\ ca_result' = IsContractAddress(ca_text)
    /\ ca_pc' = "returned"
    /\ UNCHANGED <<ca_text, sessionVars, splitVars,
                 startVars, refreshVars, deliverVars>>

AddrIdle == ca_text = <<>> /\ ca_result = FALSE /\ ca_pc = "idle"

(***************************************************************************)
(* The handlers (lines 163-173, 228-341): one task per inbound update.     *)
(***************************************************************************)
ValidAddr == <<"0", "x">> \o Rep("a", AddrLen - 2)
ShortAddr == <<"0", "x", "1", "2", "3">>
PaddedAddr == <<SP>> \o ValidAddr \o <<NL>>
AddrSamples == <<ValidAddr, ShortAddr, PaddedAddr>>
IndexOf(a) == CHOOSE i \in DOMAIN AddrSamples : AddrSamples[i] = a

\* update.message.text of a free-text message
TextSamples == {ValidAddr, ShortAddr, PaddedAddr}
\* context.args of /analyze: whitespace-separated words
ArgSamples == {<<>>, <<ValidAddr>>, <<ShortAddr>>, <<ShortAddr, ValidAddr>>}

IdleTask ==
    [pc |-> "idle", user |-> 0, address |-> 0,
     status_message |-> "none",  \* what the status placeholder displays
     status_error |-> "none",    \* the error description it displays
     exc |-> "none",             \* the exception being handled
     notice |-> "none",          \* the last notice handed to the transport
     notice_error |-> "none",    \* the error description in that notice
     chunks |-> 0,               \* len(chunks) of a long message, 0: short
     idx |-> 0,                  \* i of the chunk being sent: i chunks are out
     analyzerCalls |-> 0, formatterCalls |-> 0,
     guard |-> "none",           \* none, rejected, held (added), released
     escaped |-> FALSE]          \* an exception left the handler

InitSession ==
    /\ analyzing_users = {}
    /\ task = [s \in Tasks |-> IdleTask]

\* Task s continues as t; split_message and is_contract_address are pure.
Set(s, t) ==
    /\ task' = [task EXCEPT ![s] = t]
    /\ UNCHANGED <<splitVars, addrVars, startVars, refreshVars, deliverVars>>

\* The next free task: tasks are told apart only by their number.
Free(s) == task[s].pc = "idle" /\ \A r \in 1..(s - 1) : task[r].pc # "idle"

\* Mutant: the membership test is lost.
AlreadyAnalyzingNever(u) == FALSE

\* line 247: user_id in analyzing_users
AlreadyAnalyzing(u) == u \in analyzing_users

\* line 254: analyzing_users.add(user_id)
Add(set, u) == set \cup {u}

\* Mutant: the finally clause removes nothing.
DiscardNothing(set, u) == set

\* line 286: analyzing_users.discard(user_id)
Discard(set, u) == set \ {u}

\* lines 288-290: the outer except clause replies with a generic notice
OuterExcept(t) ==
    [t EXCEPT !.pc = "await_outer_err", !.exc = "TransportError",
              !.notice = "generic_error", !.notice_error = "none"]

\* lines 274-282: the inner except clause edits the status placeholder
InnerExcept(t, e) ==
    [t EXCEPT !.pc = "await_edit_err", !.exc = e,
              !.notice = "analysis_failed", !.notice_error = e]

\* lines 314-316: the except clause of send_analysis_results
SendExcept(t) ==
    [t EXCEPT !.pc = "await_send_err", !.exc = "TransportError",
              !.notice = "format_error", !.notice_error = "none"]

\* Mutant: the failure of a chunk is logged and the loop goes on with the
\* next chunk.
LongExceptGoesOn(t) ==
    IF t.idx + 1 < t.chunks
    THEN [t EXCEPT !.idx = @ + 1, !.exc = "TransportError"]
    ELSE [t EXCEPT !.pc = "await_long_err", !.exc = "TransportError",
                   !.notice = "send_error", !.notice_error = "none"]

\* lines 339-341: the except clause of send_long_message
LongExcept(t) ==
    [t EXCEPT !.pc = "await_long_err", !.exc = "TransportError",
              !.notice = "send_error", !.notice_error = "none"]

\* lines 243-262: analyze_token_address up to its first await
Enter(s, u, a) ==
    IF AlreadyAnalyzing(u)
    THEN /\ Set(s, [IdleTask EXCEPT !.pc = "await_busy", !.user = u,
                                    !.address = a, !.guard = "rejected",
                                    !.notice = "already_in_progress"])
         /\ UNCHANGED analyzing_users
    ELSE /\ analyzing_users' = Add(analyzing_users, u)
         /\ Set(s, [IdleTask EXCEPT !.pc = "await_status", !.user = u,
                                    !.address = a, !.guard = "held"])

\* The handler has ended: its locals are gone; what it showed to the user and
\* what it did to analyzing_users stay.
Ended(t) ==
    [IdleTask EXCEPT !.pc = "done", !.user = t.user, !.guard = t.guard,
                     !.status_message = t.status_message,
                     !.status_error = t.status_error, !.escaped = t.escaped]

\* send_long_message has returned or raised: chunks and i are gone
LeftLoop(t) == [t EXCEPT !.chunks = 0, !.idx = 0]

\* lines 284-286, then the coroutine returns
Return(s, t) ==
    /\ analyzing_users' = Discard(analyzing_users, t.user)
    /\ Set(s, Ended([t EXCEPT !.guard = "released"]))

\* lines 228-239: handle_message
HandleMessage(s) ==
    /\ Free(s)
    /\ \E u \in Users, text \in TextSamples :
         LET message_text == Strip(text)
         IN IF IsContractAddress(message_text)
            THEN Enter(s, u, IndexOf(message_text))
            ELSE /\ Set(s, [IdleTask EXCEPT !.pc = "await_reject", !.user = u,
                                            !.address = IndexOf(message_text),
                                            !.notice = "invalid_address"])
                 /\ UNCHANGED analyzing_users

\* lines 163-173: analyze_command
AnalyzeCommand(s) ==
    /\ Free(s)
    /\ \E u \in Users, args \in ArgSamples :
         IF args = <<>>
         THEN /\ Set(s, [IdleTask EXCEPT !.pc = "await_usage", !.user = u,
                                         !.notice = "usage"])
              /\ UNCHANGED analyzing_users
         ELSE Enter(s, u, IndexOf(args[1]))

\* lines 166-170, 236-239: the reply of a handler that starts no analysis
PlainReplied(s) ==
    /\ task[s].pc \in {"await_reject", "await_usage"}
    /\ \E ok \in BOOLEAN :
         Set(s, Ended([task[s] EXCEPT !.escaped = ~ok]))
    /\ UNCHANGED analyzing_users

\* Mutant: the finally clause also covers the "already in progress" return.
BusyRepliedDiscards(s) ==
    /\ task[s].pc = "await_busy"
    /\ \E ok \in BOOLEAN :
         Set(s, IF ok THEN Ended(task[s]) ELSE OuterExcept(task[s]))
    /\ analyzing_users' = analyzing_users \ {task[s].user}

\* lines 248-251: the "already in progress" reply returns or raises
BusyReplied(s) ==
    /\ task[s].pc = "await_busy"
    /\ \E ok \in BOOLEAN :
         Set(s, IF ok THEN Ended(task[s]) ELSE OuterExcept(task[s]))
    /\ UNCHANGED analyzing_users

\* lines 257-266: the status placeholder is sent, then the Analyzer is called
StatusReplied(s) ==
    /\ task[s].pc = "await_status"
    /\ \E ok \in BOOLEAN :
         Set(s, IF ok
                THEN [task[s] EXCEPT !.pc = "await_analyzer",
                                     !.status_message = "analyzing",
                                     !.analyzerCalls = @ + 1]
                ELSE OuterExcept(task[s]))
    /\ UNCHANGED analyzing_users

\* lines 343-370: add_action_buttons up to its await; whatever it raises is
\* caught and logged (lines 372-373), and the coroutines return
AddActionButtons(s, t) ==
    \E built \in BOOLEAN :
       IF built
       THEN /\ Set(s, [t EXCEPT !.pc = "await_panel"])
            /\ UNCHANGED analyzing_users
       ELSE Return(s, t)

\* line 266: analyze_token(address) has returned or raised. The tasks do not
\* follow the address further: what add_action_buttons builds from it is in
\* Keyboard and DeliverButtons.
Analyzed(t) == [t EXCEPT !.address = 0]

\* lines 266, 274-282: the Analyzer raises
AnalyzerRaised(s) ==
    /\ task[s].pc = "await_analyzer"
    /\ Set(s, InnerExcept(Analyzed(task[s]), "AnalyzerError"))
    /\ UNCHANGED analyzing_users

\* lines 266-272, 295-309, 320-330: the Analyzer returns; the Formatter
\* is called, then the first result message is handed to the transport
AnalyzerReturned(s) ==
    /\ task[s].pc = "await_analyzer"
    /\ LET t == [Analyzed(task[s]) EXCEPT !.formatterCalls = @ + 1]
       IN \/ \E f \in {"format_raises", "to_message_raises", "short"} :
               Set(s, CASE f = "format_raises" -> InnerExcept(t, "FormatError")
                        [] f = "to_message_raises" -> SendExcept(t)
                        [] OTHER -> [t EXCEPT !.pc = "await_single"])
          \/ \E n \in 1..MaxChunks :
               Set(s, [t EXCEPT !.pc = "await_chunk", !.chunks = n, !.idx = 0])
    /\ UNCHANGED analyzing_users

\* lines 305-312: the single message is sent
SingleReplied(s) ==
    /\ task[s].pc = "await_single"
    /\ \E ok \in BOOLEAN :
         IF ok
         THEN AddActionButtons(s, task[s])
         ELSE Set(s, SendExcept(task[s])) /\ UNCHANGED analyzing_users

\* lines 324-337: one chunk is sent; after the last one send_long_message
\* returns (line 312 follows)
ChunkSent(s) ==
    /\ task[s].pc = "await_chunk"
    /\ \E ok \in BOOLEAN :
         IF ok
         THEN IF task[s].idx + 1 < task[s].chunks
              THEN Set(s, [task[s] EXCEPT !.idx = @ + 1])
                   /\ UNCHANGED analyzing_users
              ELSE AddActionButtons(s, LeftLoop(task[s]))
         ELSE Set(s, LongExcept(task[s])) /\ UNCHANGED analyzing_users

\* lines 339-341, 312: the notice of send_long_message's except clause
LongErrReplied(s) ==
    /\ task[s].pc = "await_long_err"
    /\ \E ok \in BOOLEAN :
         IF ok
         THEN AddActionButtons(s, LeftLoop(task[s]))
         ELSE Set(s, SendExcept(LeftLoop(task[s]))) /\ UNCHANGED analyzing_users

\* lines 365-373: the action panel is sent, or the send raises and is logged
PanelSent(s) ==
    /\ task[s].pc = "await_panel"
    /\ Return(s, task[s])

\* lines 314-316: the notice of send_analysis_results' except clause
SendErrReplied(s) ==
    /\ task[s].pc = "await_send_err"
    /\ \E ok \in BOOLEAN :
         IF ok
         THEN Return(s, task[s])
         ELSE Set(s, InnerExcept(task[s], "TransportError"))
              /\ UNCHANGED analyzing_users

\* lines 276-290: the edit of the status placeholder returns or raises; the
\* finally clause runs either way
EditErrReplied(s) ==
    /\ task[s].pc = "await_edit_err"
    /\ analyzing_users' = Discard(analyzing_users, task[s].user)
    /\ \E ok \in BOOLEAN :
         Set(s, IF ok
                THEN Ended([task[s] EXCEPT !.guard = "released",
                                           !.status_message = "failed",
                                           !.status_error = task[s].notice_error])
                ELSE [OuterExcept(task[s]) EXCEPT !.guard = "released"])

\* line 290: the generic notice returns, or raises out of the handler
OuterErrReplied(s) ==
    /\ task[s].pc = "await_outer_err"
    /\ \E ok \in BOOLEAN :
         Set(s, Ended([task[s] EXCEPT !.escaped = ~ok]))
    /\ UNCHANGED analyzing_users

\* A finished task is forgotten, unless it still owns an entry of the set.
Forget(s) ==
    /\ task[s].pc = "done"
    /\ task[s].guard # "held"
    /\ Set(s, IdleTask)
    /\ UNCHANGED analyzing_users

Step(s) ==
    \/ HandleMessage(s)
    \/ AnalyzeCommand(s)
    \/ PlainReplied(s)
    \/ BusyReplied(s)
    \/ StatusReplied(s)
    \/ AnalyzerRaised(s)
    \/ AnalyzerReturned(s)
    \/ SingleReplied(s)
    \/ ChunkSent(s)
    \/ LongErrReplied(s)
    \/ PanelSent(s)
    \/ SendErrReplied(s)
    \/ EditErrReplied(s)
    \/ OuterErrReplied(s)
    \/ Forget(s)

(***************************************************************************)
(* run_bot (lines 40-489): the Application is built, the handlers are      *)
(* added, then run_polling dispatches the inbound updates.                 *)
(***************************************************************************)
\* lines 462-468: the handlers added to the application
Handlers == {"start", "help", "analyze", "chains", "status", "message", "callback_query"}

\* lines 472-478: the commands set_commands would register
BotCommands == {"start", "help", "analyze", "chains", "status"}

\* line 58: the application is built
AppBuilt == [pc |-> "built", handlers |-> {}, commands |-> {}]

\* lines 471-480: set_commands; run_bot defines it and never calls it
set_commands(a) == [a EXCEPT !.commands = BotCommands]

\* lines 483-486: run_polling dispatches updates to the handlers
AppPolling == [pc |-> "polling", handlers |-> Handlers, commands |-> {}]

InitStart == app = AppBuilt

\* lines 462-468
AddHandlers ==
    /\ app.pc = "built"
    /\ app' = [app EXCEPT !.pc = "ready", !.handlers = Handlers]
    /\ UNCHANGED <<sessionVars, splitVars, addrVars, refreshVars, deliverVars>>

\* lines 483-489: run_polling starts dispatching, or raises and run_bot
\* logs and re-raises
RunPolling ==
    /\ app.pc = "ready"
    /\ \E ok \in BOOLEAN : app' = [app EXCEPT !.pc = IF ok THEN "polling" ELSE "failed"]
    /\ UNCHANGED <<sessionVars, splitVars, addrVars, refreshVars, deliverVars>>

(***************************************************************************)
(* handle_callback_query and handle_refresh_callback (lines 375-414): one  *)
(* task, one step per await.                                               *)
(***************************************************************************)
Colon == ":"
RefreshPrefix == <<"r", "e", "f", "r", "e", "s", "h", Colon>>

\* line 360: callback_data=f"refresh:{address}"
CallbackData(address) == RefreshPrefix \o address

RECURSIVE SplitEvery(_, _)
\* Mutant: data.split(":"), every colon separates.
SplitEvery(data, sep) ==
    IF \A i \in 1..Len(data) : data[i] # sep THEN <<data>>
    ELSE LET k == CHOOSE i \in 1..Len(data) :
                      data[i] = sep /\ \A j \in 1..(i - 1) : data[j] # sep
         IN <<SubSeq(data, 1, k - 1)>> \o SplitEvery(SubSeq(data, k + 1, Len(data)), sep)

\* line 383: data.split(":", 1), only the first colon separates
SplitOnce(data, sep) ==
    IF \A i \in 1..Len(data) : data[i] # sep THEN <<data>>
    ELSE LET k == CHOOSE i \in 1..Len(data) :
                      data[i] = sep /\ \A j \in 1..(i - 1) : data[j] # sep
         IN <<SubSeq(data, 1, k - 1), SubSeq(data, k + 1, Len(data))>>

\* line 383: address = data.split(":", 1)[1]
DecodeAddress(data) == SplitOnce(data, Colon)[2]

\* lines 359-361: the refresh button of the panel sent for an address
Button(a) == [address |-> a, callback_data |-> CallbackData(a)]

\* a button whose callback data is no refresh token
OtherButton == [address |-> <<>>, callback_data |-> <<"h", "e", "l", "p">>]

\* the addresses a refresh button is built for: analyze_command passes any
\* word on, colons included
TokenAlphabet == {"0", "x", Colon}
TokenAddresses == UNION {[1..n -> TokenAlphabet] : n \in 1..MaxTokenLen}

IdleCb ==
    [pc |-> "idle", user |-> 0,
     button |-> OtherButton,  \* the button of update.callback_query
     address |-> <<>>,        \* the address decoded from it (line 383)
     ops |-> <<>>,            \* the calls made so far, in order
     shown |-> "panel",       \* what the message of the button displays
     shown_address |-> <<>>,  \* the address its placeholder names
     length |-> "none",       \* whether the result fits one message
     escaped |-> FALSE]       \* an exception left the handler

\* Task cb continues as c; nothing else changes.
SetCb(c) ==
    /\ cb' = c
    /\ UNCHANGED <<sessionVars, splitVars, addrVars, startVars, buttons, deliverVars>>

\* The handler has ended: its locals are gone; what its message displays stays.
CbEnded(c) ==
    [IdleCb EXCEPT !.pc = "done", !.user = c.user, !.shown = c.shown,
                   !.escaped = c.escaped]

\* lines 386-388: the except clause of handle_callback_query
CbExcept(c) ==
    [c EXCEPT !.pc = "await_cb_err", !.ops = Append(@, "edit_generic_error")]

\* lines 412-414: the except clause of handle_refresh_callback
RefreshExcept(c) ==
    [c EXCEPT !.pc = "await_refresh_err", !.ops = Append(@, "edit_refresh_error")]

\* Mutant: the refresh goes to the Analyzer at once, no placeholder is shown.
RefreshSkipsPlaceholder(c, address) ==
    [c EXCEPT !.pc = "await_analyzer", !.address = address,
              !.ops = Append(@, "analyze")]

\* lines 390-398: handle_refresh_callback up to its first await
Refresh(c, address) ==
    [c EXCEPT !.pc = "await_placeholder", !.address = address,
              !.ops = Append(@, "edit_placeholder")]

\* lines 377-379: a button is pressed, the callback is acknowledged
CallbackQuery ==
    /\ cb.pc = "idle"
    /\ \E u \in Users, b \in buttons :
         SetCb([IdleCb EXCEPT !.pc = "await_answer", !.user = u, !.button = b,
                              !.ops = <<"answer">>])

\* lines 379-388: the acknowledgement returns or raises
Answered ==
    /\ cb.pc = "await_answer"
    /\ \E ok \in BOOLEAN :
         IF ok
         THEN LET data == cb.button.callback_data
              IN IF StartsWith(data, RefreshPrefix)
                 THEN SetCb(Refresh(cb, DecodeAddress(data)))
                 ELSE SetCb(CbEnded(cb))
         ELSE SetCb(CbExcept(cb))

\* Mutant: the refresh takes part in the guard, it adds its user before the
\* Analyzer is called.
PlaceholderEditedGuards ==
    /\ cb.pc = "await_placeholder"
    /\ \E ok \in BOOLEAN :
         cb' = (IF ok
                THEN [cb EXCEPT !.pc = "await_analyzer", !.shown = "refreshing",
                                !.shown_address = cb.address,
                                !.ops = Append(@, "analyze")]
                ELSE RefreshExcept(cb))
    /\ analyzing_users' = Add(analyzing_users, cb.user)
    /\ UNCHANGED <<task, splitVars, addrVars, startVars, buttons, deliverVars>>

\* lines 393-401: the placeholder edit returns, the Analyzer is called; or
\* the edit raises
PlaceholderEdited ==
    /\ cb.pc = "await_placeholder"
    /\ \E ok \in BOOLEAN :
         SetCb(IF ok
               THEN [cb EXCEPT !.pc = "await_analyzer", !.shown = "refreshing",
                               !.shown_address = cb.address,
                               !.ops = Append(@, "analyze")]
               ELSE RefreshExcept(cb))

\* lines 401, 412-414: the Analyzer raises
RefreshAnalyzerRaised ==
    /\ cb.pc = "await_analyzer"
    /\ SetCb(RefreshExcept(cb))

\* lines 401-410: the Analyzer returns; the Formatter is called and the
\* result, whatever its length, is handed to the transport as an edit
RefreshAnalyzerReturned ==
    /\ cb.pc = "await_analyzer"
    /\ LET c == [cb EXCEPT !.ops = Append(@, "format")]
       IN \E f \in {"format_raises", "to_message_raises", "fits", "too_long"} :
             SetCb(IF f \in {"format_raises", "to_message_raises"}
                   THEN RefreshExcept(c)
                   ELSE [c EXCEPT !.pc = "await_result", !.length = f,
                                  !.ops = Append(@, "edit_result")])

\* lines 406-414: the edit that carries the result returns or raises
ResultEdited ==
    /\ cb.pc = "await_result"
    /\ \E ok \in BOOLEAN :
         SetCb(IF ok THEN CbEnded([cb EXCEPT !.shown = "result"])
                     ELSE RefreshExcept(cb))

\* lines 412-414, 386-388: the edit of handle_refresh_callback's except
\* clause returns, or raises into handle_callback_query's except clause
RefreshErrEdited ==
    /\ cb.pc = "await_refresh_err"
    /\ \E ok \in BOOLEAN :
         SetCb(IF ok THEN CbEnded([cb EXCEPT !.shown = "refresh_error"])
                     ELSE CbExcept(cb))

\* line 388: the edit of handle_callback_query's except clause returns, or
\* raises out of the handler
CbErrEdited ==
    /\ cb.pc = "await_cb_err"
    /\ \E ok \in BOOLEAN :
         SetCb(IF ok THEN CbEnded([cb EXCEPT !.shown = "generic_error"])
                     ELSE CbEnded([cb EXCEPT !.escaped = TRUE]))

\* A finished callback task is forgotten.
CbForget ==
    /\ cb.pc = "done"
    /\ SetCb(IdleCb)

CallbackStep ==
    \/ CallbackQuery
    \/ Answered
    \/ PlaceholderEdited
    \/ RefreshAnalyzerRaised
    \/ RefreshAnalyzerReturned
    \/ ResultEdited
    \/ RefreshErrEdited
    \/ CbErrEdited
    \/ CbForget

CbIdle == buttons = {} /\ cb = IdleCb

\* the buttons of the panels sent for every address
InitCallback == buttons = {Button(a) : a \in TokenAddresses} \cup {OtherButton} /\ cb = IdleCb

\* the button of the panel sent for one address
InitRefresh == buttons = {Button(ShortAddr), OtherButton} /\ cb = IdleCb

(***************************************************************************)
(* send_analysis_results, send_long_message and add_action_buttons (lines  *)
(* 292-373) with the text they deliver: one call, one step per await.      *)
(***************************************************************************)
RECURSIVE SplitLoop(_, _, _, _)
\* lines 444-454: the loop of split_message over the lines left
SplitLoop(lines, chunks, current, max) ==
    IF lines = <<>> THEN chunks \o FinalChunks(current)
    ELSE LET line == Head(lines)
         IN IF Overflows(current, line, max)
            THEN IF current # <<>>
                 THEN SplitLoop(Tail(lines), Append(chunks, CompletedChunk(current)),
                                RestartFrom(line), max)
                 ELSE SplitLoop(Tail(lines), Append(chunks, CutHead(line, max)),
                                CutRest(line, max), max)
            ELSE SplitLoop(Tail(lines), chunks, current \o line \o <<NL>>, max)

\* lines 438-459
split_message(message, max_length) ==
    SplitLoop(SplitLines(message), <<>>, <<>>, max_length)

\* Mutant: a message of exactly MAX_MESSAGE_LENGTH characters is split too.
TooLongAtLimit(message) == Len(message) >= MAX_MESSAGE_LENGTH

\* line 300: len(message) > MAX_MESSAGE_LENGTH
TooLong(message) == Len(message) > MAX_MESSAGE_LENGTH

\* line 322: split_message(message, MAX_MESSAGE_LENGTH - 100)
ChunksOf(message) == split_message(message, MAX_MESSAGE_LENGTH - RESERVED_MARGIN)

RECURSIVE Repeat(_, _)
Repeat(block, n) == IF n = 0 THEN <<>> ELSE block \o Repeat(block, n - 1)

\* what response.to_telegram_message() returns: short texts, a text of
\* exactly MAX_MESSAGE_LENGTH characters, and texts beyond it (one long line;
\* many short lines; lines with blanks and blank lines between them)
PayloadTexts ==
    {<<"a", "b", NL, "c", "d">>,
     Rep("a", MAX_MESSAGE_LENGTH),
     Rep("a", MAX_MESSAGE_LENGTH + 1),
     Repeat(<<"a", "b", "c", NL>>, MAX_MESSAGE_LENGTH \div 4 + 1),
     Repeat(<<SP, "a", NL, NL, "b", "b", NL>>, MAX_MESSAGE_LENGTH \div 7 + 1)}

\* response.basic_info.chain: missing or empty, or a chain
Chains == {"none", "ethereum"}

\* the formatted response handed to send_analysis_results
Responses == [text : PayloadTexts, chain : Chains]

NoUrl == [chain |-> "none", address |-> <<>>]

\* lines 353-356: the explorer button; its link is the ChainDetector's for
\* this chain and address
ExplorerButton(chain, address) ==
    [label |-> "explorer", url |-> [chain |-> chain, address |-> address],
     callback_data |-> <<>>]

\* lines 359-361: the refresh button
RefreshButton(address) ==
    [label |-> "refresh", url |-> NoUrl, callback_data |-> CallbackData(address)]

\* lines 348-361: the keyboard add_action_buttons builds
Keyboard(response, address) ==
    (IF response.chain # "none"
     THEN <<ExplorerButton(response.chain, address)>> ELSE <<>>)
       \o <<RefreshButton(address)>>

IdleDelivery ==
    [pc |-> "idle", response |-> [text |-> <<>>, chain |-> "none"],
     address |-> <<>>,
     chunks |-> <<>>,    \* chunks of send_long_message
     i |-> 0,            \* i of the chunk being sent
     sent |-> <<>>,      \* the result messages delivered so far, in order
     keyboard |-> <<>>,  \* the keyboard of the panel handed to the transport
     panel |-> FALSE,    \* the panel was delivered
     formatted |-> FALSE,  \* to_telegram_message has returned
     failed |-> FALSE,   \* a transport call has raised
     raised |-> FALSE]   \* an exception left send_analysis_results

DeliverIdle == delivery = IdleDelivery

\* send_analysis_results is called with a response and an address
InitDeliver ==
    \E r \in Responses :
       delivery = [IdleDelivery EXCEPT !.pc = "start", !.response = r,
                                       !.address = ValidAddr]

SetDelivery(d) ==
    /\ delivery' = d
    /\ UNCHANGED <<sessionVars, splitVars, addrVars, startVars, refreshVars>>

\* lines 314-316: the except clause of send_analysis_results
DeliverExcept(d) == [d EXCEPT !.pc = "await_send_err"]

\* lines 343-370: add_action_buttons up to its await; when get_explorer_url
\* raises, the except clause logs and the coroutines return
DeliverButtons(d) ==
    \/ SetDelivery([d EXCEPT !.pc = "await_panel",
                             !.keyboard = Keyboard(d.response, d.address)])
    \/ /\ d.response.chain # "none"
       /\ SetDelivery([d EXCEPT !.pc = "done"])

\* lines 295-309, 320-326: to_telegram_message, the length test, and the
\* first message handed to the transport
DeliverStart ==
    /\ delivery.pc = "start"
    /\ \/ SetDelivery(DeliverExcept(delivery))
       \/ LET message == delivery.response.text
          IN IF TooLong(message)
             THEN LET chunks == ChunksOf(message)
                  IN IF chunks = <<>>
                     THEN DeliverButtons([delivery EXCEPT !.formatted = TRUE])
                     ELSE SetDelivery([delivery EXCEPT !.pc = "await_chunk",
                                                       !.formatted = TRUE,
                                                       !.chunks = chunks, !.i = 0])
             ELSE SetDelivery([delivery EXCEPT !.pc = "await_single",
                                               !.formatted = TRUE])

\* lines 305-312: the single message is delivered, or its send raises
DeliverSingle ==
    /\ delivery.pc = "await_single"
    /\ \/ DeliverButtons([delivery EXCEPT !.sent = Append(@, delivery.response.text)])
       \/ SetDelivery(DeliverExcept([delivery EXCEPT !.failed = TRUE]))

\* lines 324-341: chunk i is delivered and the next one is sent, or its send
\* raises and the except clause sends its notice
DeliverChunk ==
    /\ delivery.pc = "await_chunk"
    /\ \/ LET d == [delivery EXCEPT !.sent = Append(@, delivery.chunks[delivery.i + 1])]
          IN IF delivery.i + 1 < Len(delivery.chunks)
             THEN SetDelivery([d EXCEPT !.i = @ + 1])
             ELSE DeliverButtons(d)
       \/ SetDelivery([delivery EXCEPT !.pc = "await_long_err", !.failed = TRUE])

\* lines 339-341, 312: the notice of send_long_message's except clause
DeliverLongErr ==
    /\ delivery.pc = "await_long_err"
    /\ \/ DeliverButtons(delivery)
       \/ SetDelivery(DeliverExcept(delivery))

\* lines 365-373: the panel is delivered, or its send raises and is logged
DeliverPanel ==
    /\ delivery.pc = "await_panel"
    /\ \E ok \in BOOLEAN :
         SetDelivery([delivery EXCEPT !.pc = "done", !.panel = ok,
                                      !.failed = @ \/ ~ok])

\* line 316: the notice of send_analysis_results' except clause returns, or
\* raises out of send_analysis_results
DeliverSendErr ==
    /\ delivery.pc = "await_send_err"
    /\ \E ok \in BOOLEAN :
         SetDelivery([delivery EXCEPT !.pc = "done", !.raised = ~ok,
                                      !.failed = @ \/ ~ok])

Idle == app = AppPolling /\ CbIdle /\ DeliverIdle

Init == InitSession /\ SplitIdle /\ AddrIdle /\ Idle
Next == \E s \in Tasks : Step(s)
Spec == Init /\ [][Next]_vars

InitS == InitSplit /\ InitSession /\ AddrIdle /\ Idle
NextS == SplitFlush \/ SplitCut \/ SplitAppend \/ SplitFinish
SpecSplit == InitS /\ [][NextS]_vars

InitA == InitAddr /\ InitSession /\ SplitIdle /\ Idle
NextA == CheckAddress
SpecAddr == InitA /\ [][NextA]_vars

InitStartup == InitStart /\ InitSession /\ SplitIdle /\ AddrIdle /\ CbIdle /\ DeliverIdle
\* run_polling dispatches an update to a handler
Dispatch(s) == app.pc = "polling" /\ Step(s)
NextStart == AddHandlers \/ RunPolling \/ \E s \in Tasks : Dispatch(s)
SpecStart == InitStartup /\ [][NextStart]_vars

InitC == InitCallback /\ InitSession /\ SplitIdle /\ AddrIdle /\ app = AppPolling /\ DeliverIdle
NextC == CallbackStep
SpecCallback == InitC /\ [][NextC]_vars

\* the analysis tasks beside the callback task: one in flight, one arriving
RefreshTasks == {1, 2}
InitR == InitRefresh /\ InitSession /\ SplitIdle /\ AddrIdle /\ app = AppPolling /\ DeliverIdle
NextR == CallbackStep \/ \E s \in RefreshTasks : Step(s)
SpecRefresh == InitR /\ [][NextR]_vars

InitD == InitDeliver /\ InitSession /\ SplitIdle /\ AddrIdle /\ app = AppPolling /\ CbIdle
NextD == DeliverStart \/ DeliverSingle \/ DeliverChunk \/ DeliverLongErr
            \/ DeliverPanel \/ DeliverSendErr
SpecDeliver == InitD /\ [][NextD]_vars

(***************************************************************************)
(* Properties of the handlers.                                             *)
(***************************************************************************)
\* Task s has added its user to analyzing_users and has neither removed it
\* nor ended.
InFlight(s) == task[s].guard = "held" /\ task[s].pc \notin {"idle", "done"}

\* This step takes up an analysis request in task s.
Starts(s) == task[s].pc = "idle" /\ task'[s].pc \in {"await_busy", "await_status"}

\* This step ends task s.
Ends(s) == task[s].pc \notin {"idle", "done"} /\ task'[s].pc = "done"

Accepted(s) ==
    /\ task'[s].pc = "await_status" /\ task'[s].guard = "held"
    /\ task'[s].user \in analyzing_users'

Rejected(s) ==
    /\ task'[s].pc = "await_busy" /\ task'[s].guard = "rejected"
    /\ task'[s].notice = "already_in_progress"

AtMostOneInFlight ==
    \A u \in Users : Cardinality({s \in Tasks : task[s].user = u /\ InFlight(s)}) <= 1

OverlapRule ==
    \A s \in Tasks :
       Starts(s) =>
          /\ (\E r \in Tasks : task[r].user = task'[s].user /\ InFlight(r))
                => Rejected(s)
          /\ (\A r \in Tasks : task[r].user = task'[s].user => task[r].guard # "held")
                => Accepted(s)

\* C1: at most one task per user is between adding the user to
\* analyzing_users and removing it; a request that arrives while another task
\* of its user is there is answered "already in progress", and a request of a
\* user none of whose tasks holds an entry is accepted.
C1_MutualExclusion == []AtMostOneInFlight /\ [][OverlapRule]_vars

\* C1 witness: two overlapping requests of one user, the first in flight, the
\* second rejected.
C1_Witness ==
    \E r, s \in Tasks :
       /\ r # s /\ task[r].user = task[s].user
       /\ InFlight(r) /\ task[r].pc = "await_analyzer"
       /\ task[s].guard = "rejected" /\ task[s].notice = "already_in_progress"

\* C2 (as claimed): when a task that added its user ends, and no other task of
\* that user is in flight, the user is not in analyzing_users.
C2_GuaranteedRelease ==
    [][\A s \in Tasks :
          (/\ Ends(s)
           /\ task'[s].guard \in {"held", "released"}
           /\ \A r \in Tasks \ {s} : ~(task[r].user = task[s].user /\ InFlight(r)))
          => task[s].user \notin analyzing_users']_vars

\* C3: when the Analyzer raises, the edit of the status placeholder carries
\* its error description; when that edit returns or raises, the user is
\* removed from analyzing_users; and the next request of that user is accepted.
C3_AnalyzerFailure ==
    [][\A s \in Tasks :
          /\ (task[s].pc = "await_analyzer" /\ task'[s].exc = "AnalyzerError")
                => /\ task'[s].pc = "await_edit_err"
                   /\ task'[s].notice = "analysis_failed"
                   /\ task'[s].notice_error = "AnalyzerError"
          /\ (/\ task[s].pc = "await_edit_err" /\ task[s].exc = "AnalyzerError"
              /\ task'[s].pc # "await_edit_err")
                => /\ task'[s].guard = "released"
                   /\ task[s].user \notin analyzing_users'
                   /\ task'[s].status_message = "failed"
                         => task'[s].status_error = "AnalyzerError"
          /\ (/\ Starts(s)
              /\ \E r \in Tasks : /\ task[r].user = task'[s].user
                                  /\ task[r].status_error = "AnalyzerError"
                                  /\ task[r].guard = "released"
              /\ \A r \in Tasks : task[r].user = task'[s].user
                                     => task[r].guard # "held")
                => Accepted(s)]_vars

\* C3 witness: a task ended after its Analyzer call raised and the placeholder
\* was edited, and the next task of that user has reached the Analyzer.
C3_Witness ==
    \E r, s \in Tasks :
       /\ r # s /\ task[r].user = task[s].user
       /\ task[r].pc = "done" /\ task[r].guard = "released"
       /\ task[r].status_message = "failed" /\ task[r].status_error = "AnalyzerError"
       /\ task[s].pc = "await_analyzer" /\ task[s].analyzerCalls = 1

\* C4 (as claimed): a task whose address is_contract_address rejects answers
\* with the invalid-address notice, never adds to analyzing_users and never
\* calls the Analyzer.
C4_ValidationGates ==
    \A s \in Tasks :
       (task[s].address # 0 /\ ~IsContractAddress(AddrSamples[task[s].address]))
          => /\ task[s].notice = "invalid_address"
             /\ task[s].guard = "none"
             /\ task[s].analyzerCalls = 0

RejectedIsInert ==
    \A s \in Tasks :
       task[s].guard = "rejected"
          => /\ task[s].analyzerCalls = 0 /\ task[s].formatterCalls = 0
             /\ task[s].pc \in {"await_busy", "await_outer_err", "done"}
             /\ task[s].chunks = 0 /\ task[s].idx = 0
             /\ task[s].status_message = "none"

\* C5: a rejected request calls neither the Analyzer nor the Formatter,
\* delivers nothing, and no step of it changes analyzing_users.
C5_RejectedChangesNothing ==
    /\ []RejectedIsInert
    /\ [][\A s \in Tasks :
             (task'[s].guard = "rejected" /\ task'[s] # task[s])
                => analyzing_users' = analyzing_users]_vars

\* C5 witness: a rejected request has ended while the task that holds the
\* user's entry is still in flight.
C5_Witness ==
    \E r, s \in Tasks :
       /\ r # s /\ task[r].user = task[s].user
       /\ task[s].guard = "rejected" /\ task[s].pc = "done"
       /\ InFlight(r) /\ task[r].user \in analyzing_users

\* C6 (as claimed): a user is in analyzing_users iff exactly one task of that
\* user has added it and has not ended.
C6_SetInvariant ==
    \A u \in Users :
       u \in analyzing_users
          <=> Cardinality({s \in Tasks : task[s].user = u /\ InFlight(s)}) = 1

(***************************************************************************)
(* Properties of split_message.                                            *)
(***************************************************************************)
RECURSIVE Join(_)
\* "\n".join(chunks)
Join(cs) ==
    IF cs = <<>> THEN <<>>
    ELSE IF Len(cs) = 1 THEN cs[1]
    ELSE cs[1] \o <<NL>> \o Join(Tail(cs))

NonEmpty(cs) == SelectSeq(cs, LAMBDA c : c # <<>>)

Lines == SplitLines(sm_text)
NoLineTooLong == \A i \in DOMAIN Lines : Len(Lines[i]) <= sm_max
\* No line is blank, none starts or ends with whitespace.
LinesAreTrim == \A i \in DOMAIN Lines : Lines[i] # <<>> /\ Strip(Lines[i]) = Lines[i]

\* C7 (as claimed): every chunk returned is at most max_length long.
C7_SizeBound ==
    sm_pc = "done" => \A i \in DOMAIN sm_chunks : Len(sm_chunks[i]) <= sm_max

\* C8 (as claimed): when no line is longer than max_length, the chunks joined
\* by single newlines are the text stripped.
C8_RoundTrip ==
    (sm_pc = "done" /\ NoLineTooLong) => Join(sm_chunks) = Strip(sm_text)

\* C8 (amended): when no line is longer than max_length, no line is blank and
\* no line starts or ends with whitespace, the non-empty chunks joined by
\* single newlines are the text stripped.
C8_RoundTripTrimLines ==
    (sm_pc = "done" /\ NoLineTooLong /\ LinesAreTrim)
       => Join(NonEmpty(sm_chunks)) = Strip(sm_text)

\* C8 witness: such a text of several lines was split into several chunks.
C8_Witness ==
    /\ sm_pc = "done" /\ NoLineTooLong /\ LinesAreTrim
    /\ Len(Lines) >= 3 /\ Len(NonEmpty(sm_chunks)) >= 2
    /\ Join(NonEmpty(sm_chunks)) = sm_text

\* C9 (as claimed): a text of at most max_length characters gives exactly one
\* chunk, the text stripped, and the empty text gives no chunk.
C9_ShortInput ==
    (sm_pc = "done" /\ Len(sm_text) <= sm_max)
       => sm_chunks = IF sm_text = <<>> THEN <<>> ELSE <<Strip(sm_text)>>

\* C9 (amended): a text of fewer than max_length characters gives exactly one
\* chunk, the text stripped, unless it holds only whitespace (the empty text
\* included), and then it gives no chunk.
C9_ShorterInput ==
    (sm_pc = "done" /\ Len(sm_text) < sm_max)
       => sm_chunks = IF Strip(sm_text) = <<>> THEN <<>> ELSE <<Strip(sm_text)>>

\* C9 witness: a text of two lines, with whitespace around it, came back as
\* one stripped chunk.
C9_Witness ==
    /\ sm_pc = "done" /\ Len(sm_text) < sm_max
    /\ Len(Lines) >= 2 /\ Strip(sm_text) # sm_text
    /\ \E i \in 2..(Len(Strip(sm_text)) - 1) : Strip(sm_text)[i] = NL
    /\ sm_chunks = <<Strip(sm_text)>>

(***************************************************************************)
(* Properties of is_contract_address.                                      *)
(***************************************************************************)
\* The address format: stripped, 42 characters, "0x", then 40 hex digits.
WellFormedAddress(text) ==
    LET t == Strip(text)
    IN /\ Len(t) = AddrLen
       /\ StartsWith(t, <<"0", "x">>)
       /\ \A i \in 3..Len(t) : t[i] \in HexDigits

\* C10 (as claimed): is_contract_address returns true exactly for the strings
\* of the address format.
C10_Validator == ca_pc = "returned" => (ca_result <=> WellFormedAddress(ca_text))

(***************************************************************************)
(* Properties of the delivery of results (lines 292-373).                  *)
(***************************************************************************)
\* This step is the return of the reply_text that carries the first result
\* message of task s: the single message, or chunk 0 of a long one.
FirstDelivered(s) ==
    \/ /\ task[s].pc = "await_single"
       /\ task'[s].pc \in {"await_panel", "done"}
    \/ /\ task[s].pc = "await_chunk" /\ task[s].idx = 0
       /\ \/ task'[s].pc = "await_chunk" /\ task'[s].idx = 1
          \/ task'[s].pc \in {"await_panel", "done"}

\* C11 (as claimed): once the first result message of a task is delivered, its
\* status placeholder no longer displays "analyzing".
C11_PlaceholderReplaced ==
    [][\A s \in Tasks :
          FirstDelivered(s) => task'[s].status_message # "analyzing"]_vars

\* C14 (as claimed): no exception leaves a task that entered
\* analyze_token_address.
C14_NoEscape == \A s \in Tasks : task[s].guard # "none" => ~task[s].escaped

\* C15 (as claimed): the action panel is handed to the transport only from the
\* successful delivery of the single message or of the last chunk.
C15_PanelAfterDelivery ==
    [][\A s \in Tasks :
          (task[s].pc # "await_panel" /\ task'[s].pc = "await_panel")
             => task[s].pc \in {"await_single", "await_chunk"}]_vars

\* The result messages a payload text is to be delivered as.
ExpectedMessages(text) ==
    IF Len(text) <= MAX_MESSAGE_LENGTH THEN <<text>>
    ELSE split_message(text, MAX_MESSAGE_LENGTH - RESERVED_MARGIN)

IsPrefix(a, b) == Len(a) <= Len(b) /\ SubSeq(b, 1, Len(a)) = a

\* C12: while no transport call has failed, the result messages delivered are
\* the first ones of the expected sequence, in its order: the payload itself
\* when it is at most MAX_MESSAGE_LENGTH long (and then nothing is split),
\* else the chunks of split_message(payload, MAX_MESSAGE_LENGTH - 100); when
\* the panel is reached or the call has ended, they are all of them.
C12_OrderedDelivery ==
    LET text == delivery.response.text
    IN (delivery.formatted /\ ~delivery.failed) =>
          /\ IsPrefix(delivery.sent, ExpectedMessages(text))
          /\ delivery.pc \in {"await_panel", "done"}
                => delivery.sent = ExpectedMessages(text)
          /\ Len(text) <= MAX_MESSAGE_LENGTH => delivery.chunks = <<>>
          /\ delivery.pc = "await_chunk"
                => Len(delivery.sent) = delivery.i

\* C12 witness: a payload beyond the limit was delivered, without a failure,
\* as three or more chunks that are not all alike, and the panel after them.
C12_Witness ==
    /\ delivery.pc = "done" /\ ~delivery.failed /\ delivery.panel
    /\ Len(delivery.response.text) > MAX_MESSAGE_LENGTH
    /\ Len(delivery.sent) >= 3
    /\ delivery.sent[1] # delivery.sent[2]
    /\ delivery.sent = delivery.chunks

\* C16 (as claimed): a panel is handed to the transport only for a payload
\* that carries a chain, and then it holds the explorer button and the
\* refresh button.
C16_PanelIffChain ==
    delivery.keyboard # <<>> =>
       /\ delivery.response.chain # "none"
       /\ delivery.keyboard = <<ExplorerButton(delivery.response.chain, delivery.address),
                                RefreshButton(delivery.address)>>

(***************************************************************************)
(* Properties of run_bot.                                                  *)
(***************************************************************************)
\* C20 (as claimed): when an update is dispatched to a handler, the commands
\* are registered.
C20_CommandsRegistered ==
    \A s \in Tasks : task[s].pc # "idle" => app = set_commands(app)

(***************************************************************************)
(* Properties of the callback handlers.                                    *)
(***************************************************************************)
\* C13: the callback data of the refresh button built for an address is
\* taken for a refresh when its acknowledgement returns, and the address
\* decoded from it, which is the one the Analyzer is called with, is that
\* address.
C13_TokenRoundTrip ==
    /\ [](cb.pc \in {"await_placeholder", "await_analyzer"}
             => cb.address = cb.button.address)
    /\ [][(/\ cb.pc = "await_answer" /\ cb.button # OtherButton
           /\ cb'.pc # "await_cb_err")
             => (cb'.pc = "await_placeholder" /\ cb'.address = cb.button.address)]_vars

\* C13 witness: the Analyzer is called with an address of two colons.
C13_Witness ==
    /\ cb.pc = "await_analyzer" /\ cb.address = cb.button.address
    /\ \E i, j \in DOMAIN cb.address :
          i < j /\ cb.address[i] = Colon /\ cb.address[j] = Colon

\* the calls of a refresh, in order
RefreshOrder == <<"answer", "edit_placeholder", "analyze", "format", "edit_result">>

\* the edits of the except clauses that may follow
ErrorEdits ==
    {<<>>, <<"edit_refresh_error">>, <<"edit_generic_error">>,
     <<"edit_refresh_error", "edit_generic_error">>}

\* C17: the calls of a callback task are a beginning of: acknowledge, edit
\* to the placeholder, Analyzer, Formatter, edit to the result; followed by
\* at most the edits of the except clauses. The placeholder names the decoded
\* address, and the result, whatever its length, goes out as that edit.
C17_RefreshOrder ==
    cb.pc \notin {"idle", "done"} =>
       /\ \E n \in 1..Len(RefreshOrder), errs \in ErrorEdits :
             cb.ops = SubSeq(RefreshOrder, 1, n) \o errs
       /\ cb.shown = "refreshing" => cb.shown_address = cb.address
       /\ cb.pc = "await_result" => cb.ops = RefreshOrder

\* C17 witness: a result too long for one message is handed to the transport
\* as the edit, after the four calls before it.
C17_Witness ==
    /\ cb.pc = "await_result" /\ cb.length = "too_long"
    /\ cb.ops = RefreshOrder /\ cb.shown = "refreshing"
    /\ cb.shown_address = cb.button.address

\* C18: no step of the callback task changes analyzing_users; when the
\* placeholder edit returns the Analyzer is called, whoever is in
\* analyzing_users; and a request is answered "already in progress" only when
\* an analysis task of its user holds an entry.
C18_RefreshOutsideGuard ==
    [][/\ cb' # cb => analyzing_users' = analyzing_users
       /\ (cb.pc = "await_placeholder" /\ cb'.pc \notin {"await_placeholder", "await_refresh_err"})
             => cb'.pc = "await_analyzer"
       /\ \A s \in Tasks :
             (Starts(s) /\ Rejected(s))
                => \E r \in Tasks : task[r].user = task'[s].user /\ task[r].guard = "held"]_vars

\* C18 witness: the Analyzer is called for a refresh while an analysis of the
\* same user is in flight.
C18_Witness ==
    /\ cb.pc = "await_analyzer"
    /\ \E s \in Tasks :
          /\ InFlight(s) /\ task[s].user = cb.user
          /\ task[s].pc = "await_analyzer" /\ cb.user \in analyzing_users

Count(ops, x) == Cardinality({i \in DOMAIN ops : ops[i] = x})

\* C19: a task calls the Analyzer at most once and the Formatter at most
\* once, and so does a refresh; a chunk is awaited only as chunk 0 after the
\* Formatter or as the next one after a chunk, never after a failure.
C19_NoRetries ==
    /\ [](/\ \A s \in Tasks :
               /\ task[s].analyzerCalls <= 1 /\ task[s].formatterCalls <= 1
               /\ task[s].pc = "await_chunk" => task[s].exc = "none"
          /\ Count(cb.ops, "analyze") <= 1 /\ Count(cb.ops, "format") <= 1)
    /\ [][\A s \in Tasks :
             (task'[s].pc = "await_chunk" /\ task'[s] # task[s])
                => \/ task[s].pc = "await_analyzer" /\ task'[s].idx = 0
                   \/ task[s].pc = "await_chunk" /\ task'[s].idx = task[s].idx + 1]_vars

\* C19 witness: the send of a chunk has failed with chunks left, after one
\* call of the Analyzer and one of the Formatter.
C19_Witness ==
    \E s \in Tasks :
       /\ task[s].pc = "await_long_err" /\ task[s].idx + 1 < task[s].chunks
       /\ task[s].analyzerCalls = 1 /\ task[s].formatterCalls = 1

(***************************************************************************)
(* Further properties of split_message.                                    *)
(***************************************************************************)
\* C21 (as claimed): no chunk split_message returns is the empty string.
C21_NoEmptyChunk ==
    sm_pc = "done" => \A i \in DOMAIN sm_chunks : sm_chunks[i] # <<>>

RECURSIVE Flatten(_)
\* the chunks one after another, nothing between them
Flatten(cs) == IF cs = <<>> THEN <<>> ELSE Head(cs) \o Flatten(Tail(cs))

\* the text with every whitespace character deleted
DeleteWhitespace(s) == SelectSeq(s, LAMBDA c : c \notin Whitespace)

\* the lines still to be read, as the text they were split from
RECURSIVE Unread(_)
Unread(lines) == IF lines = <<>> THEN <<>> ELSE Head(lines) \o <<NL>> \o Unread(Tail(lines))

\* C22: at every iteration the chunks so far, the accumulator and the lines
\* left hold, whitespace apart, the text; so the chunks returned, one after
\* another with all whitespace deleted, are the text with all whitespace
\* deleted.
C22_NoContentLost ==
    /\ sm_pc = "loop" =>
          DeleteWhitespace(Flatten(sm_chunks) \o sm_current \o Unread(sm_lines))
             = DeleteWhitespace(sm_text)
    /\ sm_pc = "done" =>
          DeleteWhitespace(Flatten(sm_chunks)) = DeleteWhitespace(sm_text)

\* C22 witness: a line longer than max_length was cut, whitespace was
\* dropped, and three or more chunks were returned.
C22_Witness ==
    /\ sm_pc = "done" /\ Len(sm_chunks) >= 3
    /\ \E i \in DOMAIN Lines : Len(Strip(Lines[i])) > sm_max
    /\ Flatten(sm_chunks) # sm_text
    /\ Len(DeleteWhitespace(sm_text)) < Len(sm_text)
    /\ DeleteWhitespace(sm_text) # <<>>

=============================================================================
